---- MODULE Spec2Model ----
(***************************************************************************)
(* Model of the dataset-division web service (backend/processor/views.py): *)
(* the request handler process_dataset, the three-strategy ARFF loader,    *)
(* the two-stage stratified split and the summary / histogram stage.       *)
(*                                                                         *)
(* Text is modelled by TLA+ strings; a character is a string of length 1.  *)
(* Python's str methods are defined below by what they do on the ASCII     *)
(* characters that occur in the enumerated inputs.                         *)
(***************************************************************************)
EXTENDS Integers, Sequences, FiniteSets, TLC

----------------------------------------------------------------------------
(* Bounds of the model *)

\* longest label sequence of an enumerated data section (rows of the table)
MaxRows == 5
\* largest per-class row count of the count-level split inputs
MaxCount == 7

----------------------------------------------------------------------------
(* Python str operations *)

Char(s, i) == SubSeq(s, i, i)

UpperAlpha == "ABCDEFGHIJKLMNOPQRSTUVWXYZ"
LowerAlpha == "abcdefghijklmnopqrstuvwxyz"
Digits == {"0", "1", "2", "3", "4", "5", "6", "7", "8", "9"}

LowerTable == [c \in {Char(UpperAlpha, i) : i \in 1..26} |->
                 Char(LowerAlpha, CHOOSE i \in 1..26 : Char(UpperAlpha, i) = c)]
UpperTable == [c \in {Char(LowerAlpha, i) : i \in 1..26} |->
                 Char(UpperAlpha, CHOOSE i \in 1..26 : Char(LowerAlpha, i) = c)]

LowerChar(c) == IF c \in DOMAIN LowerTable THEN LowerTable[c] ELSE c
UpperChar(c) == IF c \in DOMAIN UpperTable THEN UpperTable[c] ELSE c

RECURSIVE MapRange(_, _, _, _)
\* s[lo..hi] with every character mapped through table t
MapRange(s, lo, hi, t) ==
  IF lo > hi THEN ""
  ELSE IF lo = hi THEN (IF Char(s, lo) \in DOMAIN t THEN t[Char(s, lo)] ELSE Char(s, lo))
  ELSE MapRange(s, lo, (lo + hi) \div 2, t) \o MapRange(s, (lo + hi) \div 2 + 1, hi, t)

\* str.lower(), str.upper()
Lower(s) == MapRange(s, 1, Len(s), LowerTable)
Upper(s) == MapRange(s, 1, Len(s), UpperTable)

\* the characters str.strip() removes
Whitespace == {" ", "\t", "\r", "\n", "\f"}

RECURSIVE FirstNotIn(_, _, _)
\* least j >= i with s[j] not in cs, Len(s)+1 if none
FirstNotIn(s, i, cs) ==
  IF i > Len(s) \/ Char(s, i) \notin cs THEN i ELSE FirstNotIn(s, i + 1, cs)

RECURSIVE LastNotIn(_, _, _)
\* greatest j <= i with s[j] not in cs, 0 if none
LastNotIn(s, i, cs) ==
  IF i < 1 \/ Char(s, i) \notin cs THEN i ELSE LastNotIn(s, i - 1, cs)

\* str.strip(chars)
StripChars(s, cs) == SubSeq(s, FirstNotIn(s, 1, cs), LastNotIn(s, Len(s), cs))

\* str.strip()
Strip(s) == StripChars(s, Whitespace)

\* str.startswith(p)
StartsWith(s, p) == Len(p) <= Len(s) /\ SubSeq(s, 1, Len(p)) = p

MatchAt(s, i, p) == i + Len(p) - 1 <= Len(s) /\ SubSeq(s, i, i + Len(p) - 1) = p

\* p in s
Contains(s, p) == \E i \in 1..(Len(s) - Len(p) + 1) : MatchAt(s, i, p)

\* the positions of s where p occurs, in increasing order
Positions(s, p) == SelectSeq([i \in 1..Len(s) |-> i], LAMBDA i : MatchAt(s, i, p))

RECURSIVE JoinRange(_, _, _, _)
JoinRange(parts, lo, hi, sep) ==
  IF lo > hi THEN ""
  ELSE IF lo = hi THEN parts[lo]
  ELSE JoinRange(parts, lo, (lo + hi) \div 2, sep) \o sep
         \o JoinRange(parts, (lo + hi) \div 2 + 1, hi, sep)

\* sep.join(parts)
Join(parts, sep) == JoinRange(parts, 1, Len(parts), sep)

\* the pieces of s between the occurrences of p that start at the positions at
Pieces(s, at, plen) ==
  [k \in 1..(Len(at) + 1) |->
     SubSeq(s, IF k = 1 THEN 1 ELSE at[k - 1] + plen,
               IF k = Len(at) + 1 THEN Len(s) ELSE at[k] - 1)]

\* str.split(sep), sep one character
Split(s, sep) == Pieces(s, Positions(s, sep), 1)

RECURSIVE Leftmost(_, _, _, _)
\* of the sorted match positions m[k..], those that do not overlap an earlier
\* chosen match (free is the first position not yet consumed)
Leftmost(m, k, free, plen) ==
  IF k > Len(m) THEN <<>>
  ELSE IF m[k] >= free THEN <<m[k]>> \o Leftmost(m, k + 1, m[k] + plen, plen)
  ELSE Leftmost(m, k + 1, free, plen)

\* str.replace(old, new), old not empty: leftmost non-overlapping occurrences
Replace(s, old, new) ==
  LET m == Positions(s, old)
  IN Join(Pieces(s, Leftmost(m, 1, 1, Len(old)), Len(old)), new)

\* index of the first character of s that is in cs, 0 if none
FirstIn(s, cs) ==
  IF \E i \in 1..Len(s) : Char(s, i) \in cs
  THEN CHOOSE i \in 1..Len(s) : Char(s, i) \in cs /\ \A j \in 1..(i - 1) : Char(s, j) \notin cs
  ELSE 0

\* index of the first occurrence of character c in s, 0 if none
IndexOf(s, c) == FirstIn(s, {c})

----------------------------------------------------------------------------
(* Table cells *)

StrVal(t) == [kind |-> "str", text |-> t, num |-> 0, scale |-> 0]
IntVal(n) == [kind |-> "int", text |-> "", num |-> n, scale |-> 0]
NoneVal == [kind |-> "none", text |-> "", num |-> 0, scale |-> 0]

RECURSIVE Normalize(_, _)
\* a decimal m * 10^-s without trailing zeros in the fraction
Normalize(m, s) == IF s > 0 /\ m % 10 = 0 THEN Normalize(m \div 10, s - 1) ELSE <<m, s>>

\* the float m * 10^-s
FloatVal(m, s) ==
  [kind |-> "float", text |-> "", num |-> Normalize(m, s)[1], scale |-> Normalize(m, s)[2]]

\* str.isdigit() on ASCII text
IsDigit(s) == Len(s) > 0 /\ \A i \in 1..Len(s) : Char(s, i) \in Digits

DigitValue(c) == CHOOSE d \in 0..9 : Char("0123456789", d + 1) = c

RECURSIVE DigitsToInt(_, _)
\* the number written by the first i characters of the digit string s
DigitsToInt(s, i) == IF i = 0 THEN 0 ELSE 10 * DigitsToInt(s, i - 1) + DigitValue(Char(s, i))

HasSign(s) == Len(s) > 0 /\ Char(s, 1) \in {"-", "+"}
Unsigned(s) == IF HasSign(s) THEN SubSeq(s, 2, Len(s)) ELSE s
SignOf(s) == IF Len(s) > 0 /\ Char(s, 1) = "-" THEN -1 ELSE 1

\* int(s) succeeds: an optional sign and decimal digits
IntOk(s) == IsDigit(Unsigned(Strip(s)))
PyInt(s) == SignOf(Strip(s)) * DigitsToInt(Unsigned(Strip(s)), Len(Unsigned(Strip(s))))

\* the digits of the unsigned decimal text u, its '.' at index d (0 if none) taken out
DecimalDigits(u, d) == IF d = 0 THEN u ELSE SubSeq(u, 1, d - 1) \o SubSeq(u, d + 1, Len(u))

\* float(s) succeeds, for the decimal notation: an optional sign, digits with at
\* most one '.', at least one digit (exponents, inf and nan do not occur in the
\* enumerated inputs)
FloatOk(s) == IsDigit(DecimalDigits(Unsigned(Strip(s)), IndexOf(Unsigned(Strip(s)), ".")))

\* the float written by sign, the unsigned text u and the index d of its '.'
Decimal(sign, u, d) ==
  FloatVal(sign * DigitsToInt(DecimalDigits(u, d), Len(DecimalDigits(u, d))),
           IF d = 0 THEN 0 ELSE Len(u) - d)

PyFloat(s) == Decimal(SignOf(Strip(s)), Unsigned(Strip(s)), IndexOf(Unsigned(Strip(s)), "."))

RECURSIVE Pow10(_)
Pow10(k) == IF k = 0 THEN 1 ELSE 10 * Pow10(k - 1)

\* int(f) of a float cell: rounds toward zero
Truncate(f) ==
  IF f.num >= 0 THEN f.num \div Pow10(f.scale) ELSE -((-f.num) \div Pow10(f.scale))

----------------------------------------------------------------------------
(* arff.loads of the liac-arff package, as called by the two ARFF stages *)

ArffError(e) == [ok |-> FALSE, error |-> e, attributes |-> <<>>, data |-> <<>>]

\* the outcome of one decoding step: a value, or the exception it raises
Ok(v) == [error |-> "", value |-> v]
Failed(e) == [error |-> e, value |-> <<>>]

\* a loop over decoding steps: the first exception ends it, else it yields every value
Collect(results) ==
  LET bad == {k \in 1..Len(results) : results[k].error # ""}
  IN IF bad = {} THEN Ok([k \in 1..Len(results) |-> results[k].value])
     ELSE Failed(results[CHOOSE k \in bad : \A j \in bad : k <= j].error)

\* characters an unquoted relation or attribute name cannot hold
NameStop == {"{", "}", "%", ","} \cup Whitespace

\* _parse_values on text without quotes: comma-separated, '?' and '' are missing
ParseValues(s) == [i \in 1..Len(Split(s, ",")) |-> Strip(Split(s, ",")[i])]

\* _decode_relation: the text after the first space must be one bare name
DecodeRelation(row) ==
  IF IndexOf(row, " ") = 0 THEN "ValueError: not enough values to unpack"
  ELSE IF FirstIn(Strip(SubSeq(row, IndexOf(row, " ") + 1, Len(row))), NameStop) # 0
       THEN "BadRelationFormat"
  ELSE "ok"

\* _decode_attribute, the type: one of the four type names, or "NOMINAL" with
\* the declared values
DecodeType(name, type) ==
  IF Char(type, 1) = "{" /\ Char(type, Len(type)) = "}"
  THEN Ok([name |-> name, type |-> "NOMINAL",
           values |-> ParseValues(StripChars(type, {"{", "}", " "}))])
  ELSE IF Upper(type) \in {"NUMERIC", "REAL", "INTEGER", "STRING"}
       THEN Ok([name |-> name, type |-> Upper(type), values |-> <<>>])
  ELSE Failed("BadAttributeType")

\* _decode_attribute, the declaration v after the keyword: a bare name ends at
\* index stop, which must be whitespace
DecodeNameType(v, stop) ==
  IF stop = 0 \/ Char(v, stop) \notin Whitespace THEN Failed("BadAttributeFormat")
  ELSE DecodeType(SubSeq(v, 1, stop - 1), Strip(SubSeq(v, stop, Len(v))))

DecodeDeclaration(v) == DecodeNameType(v, FirstIn(v, NameStop))

\* _decode_attribute: [name, type, values] or the exception
DecodeAttribute(row) ==
  IF IndexOf(row, " ") = 0 THEN Failed("ValueError: not enough values to unpack")
  ELSE DecodeDeclaration(Strip(SubSeq(row, IndexOf(row, " ") + 1, Len(row))))

HeaderEnd(error, attrs, next) == [error |-> error, attrs |-> attrs, next |-> next]

RECURSIVE ArffHeader(_, _, _, _)

\* the @ATTRIBUTE branch of the header loop, a the decoded declaration
HeaderAttribute(lines, i, state, attrs, a) ==
  IF state \notin {"@RELATION", "@ATTRIBUTE"} THEN HeaderEnd("BadLayout", attrs, i)
  ELSE IF a.error # "" THEN HeaderEnd(a.error, attrs, i)
  ELSE IF \E j \in 1..Len(attrs) : attrs[j].name = a.value.name
       THEN HeaderEnd("BadAttributeName", attrs, i)
  ELSE ArffHeader(lines, i + 1, "@ATTRIBUTE", Append(attrs, a.value))

\* the if/elif chain of the header loop for the stripped line row, u its upper
\* case; a line that starts with no keyword is skipped
HeaderLine(lines, i, state, attrs, row, u) ==
  IF row = "" THEN ArffHeader(lines, i + 1, state, attrs)
  ELSE IF StartsWith(u, "%") /\ state = "%" THEN ArffHeader(lines, i + 1, state, attrs)
  ELSE IF StartsWith(u, "@RELATION")
       THEN IF state # "%" THEN HeaderEnd("BadLayout", attrs, i)
            ELSE IF DecodeRelation(row) # "ok" THEN HeaderEnd(DecodeRelation(row), attrs, i)
            ELSE ArffHeader(lines, i + 1, "@RELATION", attrs)
  ELSE IF StartsWith(u, "@ATTRIBUTE")
       THEN HeaderAttribute(lines, i, state, attrs, DecodeAttribute(row))
  ELSE IF StartsWith(u, "@DATA")
       THEN IF state # "@ATTRIBUTE" THEN HeaderEnd("BadLayout", attrs, i)
            ELSE HeaderEnd("", attrs, i + 1)
  ELSE ArffHeader(lines, i + 1, state, attrs)

\* the header loop of _decode from line i on: state is the last section seen
ArffHeader(lines, i, state, attrs) ==
  IF i > Len(lines) THEN HeaderEnd("BadLayout", attrs, i)
  ELSE HeaderLine(lines, i, state, attrs, StripChars(lines[i], {" ", "\r", "\n"}),
                  Upper(StripChars(lines[i], {" ", "\r", "\n"})))

\* the conversor of an attribute applied to one value
Convert(attr, value) ==
  IF value \in {"?", ""} THEN Ok(NoneVal)
  ELSE IF attr.type = "STRING" THEN Ok(StrVal(value))
  ELSE IF attr.type \in {"NUMERIC", "REAL", "INTEGER"}
       THEN IF ~FloatOk(value) THEN Failed("BadNumericalValue")
            ELSE IF attr.type = "INTEGER" THEN Ok(IntVal(Truncate(PyFloat(value))))
            ELSE Ok(PyFloat(value))
  ELSE IF \E j \in 1..Len(attr.values) : attr.values[j] = value THEN Ok(StrVal(value))
  ELSE Failed("BadNominalValue")

\* the values of one data line, each through the conversor of its attribute
DecodeValues(attrs, values) ==
  IF Len(values) # Len(attrs) THEN Failed("BadDataFormat")
  ELSE Collect([j \in 1..Len(attrs) |-> Convert(attrs[j], values[j])])

\* one data line decoded
ArffRow(attrs, row) == DecodeValues(attrs, ParseValues(row))

IsDataLine(row) == row # "" /\ ~StartsWith(row, "%")

\* the stripped lines from index from on, blank and '%' lines skipped
DataRows(lines, from) ==
  SelectSeq([k \in 1..(Len(lines) - from + 1) |-> Strip(lines[from + k - 1])], IsDataLine)

DecodeRows(attrs, rows) == Collect([k \in 1..Len(rows) |-> ArffRow(attrs, rows[k])])

\* decode_rows over the lines from index from on: the first line that does not
\* decode raises
ArffRows(lines, from, attrs) == DecodeRows(attrs, DataRows(lines, from))

\* the dataset of the attributes and the decoded rows d
ArffDataset(attrs, d) ==
  IF d.error # "" THEN ArffError(d.error)
  ELSE [ok |-> TRUE, error |-> "", attributes |-> attrs, data |-> d.value]

\* the rows after the header h
ArffBody(lines, h) ==
  IF h.error # "" THEN ArffError(h.error)
  ELSE ArffDataset(h.attrs, ArffRows(lines, h.next, h.attrs))

\* _decode over the lines of the file
ArffDecode(lines) == ArffBody(lines, ArffHeader(lines, 1, "%", <<>>))

\* arff.loads(content): {'attributes': [...], 'data': [...]} or an exception
ArffLoads(content) ==
  ArffDecode(Split(Replace(StripChars(content, {"\r", "\n"}), "\r\n", "\n"), "\n"))

----------------------------------------------------------------------------
(* The three loading strategies of views.py *)

\* pd.DataFrame(data, columns=attributes)
DataFrame(data, attributes) == [columns |-> attributes, rows |-> data]
NoFrame == DataFrame(<<>>, <<>>)

Loaded(frame) == [ok |-> TRUE, error |-> "", df |-> frame]
Raised(msg) == [ok |-> FALSE, error |-> msg, df |-> NoFrame]

AttributeNames(dataset) == [i \in 1..Len(dataset.attributes) |-> dataset.attributes[i].name]

\* load_kdd_dataset_normal after arff.loads returned dataset
NormalTable(dataset) ==
  IF ~dataset.ok THEN Raised(dataset.error)
  ELSE IF dataset.data = <<>> THEN Raised("El dataset esta vacio")
  ELSE Loaded(DataFrame(dataset.data, AttributeNames(dataset)))

\* load_kdd_dataset_normal; fault: arff.loads runs out of memory, str(MemoryError()) is ''
load_kdd_dataset_normal(content, fault) ==
  IF fault THEN Raised("") ELSE NormalTable(ArffLoads(content))

\* the canonical declarations of the well-known columns, in the order of the elif chain
KnownColumns ==
  << <<"protocol_type", "@ATTRIBUTE protocol_type {tcp,udp,icmp}">>,
     <<"service", "@ATTRIBUTE service {http,ftp,smtp,ssh,dns,other}">>,
     <<"flag", "@ATTRIBUTE flag {SF,S1,S2,S3,S0,OTH}">>,
     <<"land", "@ATTRIBUTE land {0,1}">>,
     <<"logged_in", "@ATTRIBUTE logged_in {0,1}">>,
     <<"is_host_login", "@ATTRIBUTE is_host_login {0,1}">>,
     <<"is_guest_login", "@ATTRIBUTE is_guest_login {0,1}">> >>

\* line.replace(old, new) guarded by: old in line.lower()
ReplaceAlias(line, old, new) ==
  IF Contains(Lower(line), old) THEN Replace(line, old, new) ELSE line

\* the nominal branch: a line with '{' and '}' stays, else the first well-known
\* name found in the lower-cased line decides the declaration
ForceNominal(line) ==
  LET hits == {k \in 1..Len(KnownColumns) : Contains(Lower(line), KnownColumns[k][1])}
  IN IF Contains(line, "{") /\ Contains(line, "}") THEN line
     ELSE IF hits # {} THEN KnownColumns[CHOOSE k \in hits : \A j \in hits : k <= j][2]
     ELSE line

\* the body of the cleaning loop for one stripped, non-empty line
RepairLine(line) ==
  IF StartsWith(Lower(line), "@attribute")
  THEN ForceNominal(ReplaceAlias(ReplaceAlias(ReplaceAlias(line, "string", "STRING"),
                                              "real", "NUMERIC"),
                                 "integer", "NUMERIC"))
  ELSE line

NotEmpty(line) == line # ""

\* the stripped lines of the content that are not empty
StrippedLines(lines) == SelectSeq([i \in 1..Len(lines) |-> Strip(lines[i])], NotEmpty)

RepairLines(kept) == [i \in 1..Len(kept) |-> RepairLine(kept[i])]

\* cleaned_lines of load_kdd_dataset_permissive
CleanLines(content) == RepairLines(StrippedLines(Split(content, "\n")))

\* load_kdd_dataset_permissive after arff.loads returned dataset
PermissiveTable(dataset, original_error) ==
  IF ~dataset.ok
  THEN Raised("No se pudo cargar el archivo ARFF. Error original: " \o original_error
              \o ". Error en carga permisiva: " \o dataset.error)
  ELSE Loaded(DataFrame(dataset.data, AttributeNames(dataset)))

\* load_kdd_dataset_permissive
load_kdd_dataset_permissive(content, original_error) ==
  PermissiveTable(ArffLoads(Join(CleanLines(content), "\n")), original_error)

\* the predefined NSL-KDD attributes of load_nsl_kdd_dataset
attributes ==
  << "duration", "protocol_type", "service", "flag", "src_bytes",
     "dst_bytes", "land", "wrong_fragment", "urgent", "hot",
     "num_failed_logins", "logged_in", "num_compromised", "root_shell",
     "su_attempted", "num_root", "num_file_creations", "num_shells",
     "num_access_files", "num_outbound_cmds", "is_host_login",
     "is_guest_login", "count", "srv_count", "serror_rate",
     "srv_serror_rate", "rerror_rate", "srv_rerror_rate", "same_srv_rate",
     "diff_srv_rate", "srv_diff_host_rate", "dst_host_count",
     "dst_host_srv_count", "dst_host_same_srv_rate", "dst_host_diff_srv_rate",
     "dst_host_same_src_port_rate", "dst_host_srv_diff_host_rate",
     "dst_host_serror_rate", "dst_host_srv_serror_rate", "dst_host_rerror_rate",
     "dst_host_srv_rerror_rate", "class" >>

\* a faulty variant: the loop does not break, the last marker wins
DataStartLast(lines) ==
  LET marks == {i \in 1..Len(lines) : Upper(Strip(lines[i])) = "@DATA"}
  IN IF marks = {} THEN 0 ELSE (CHOOSE i \in marks : \A j \in marks : i >= j) + 1

\* data_start: the index after the first line whose stripped upper case is '@DATA', 0 if none
DataStart(lines) ==
  LET marks == {i \in 1..Len(lines) : Upper(Strip(lines[i])) = "@DATA"}
  IN IF marks = {} THEN 0 ELSE (CHOOSE i \in marks : \A j \in marks : i <= j) + 1

\* data_lines: the stripped lines from data_start on that are not empty and not comments
DataLines(content) == DataRows(Split(content, "\n"), DataStart(Split(content, "\n")))

\* a faulty variant: a text that passes the digit test is converted from its
\* digits alone, without int() or float() having a say
CoerceDigitsOnly(value) ==
  IF IsDigit(Replace(Replace(value, ".", ""), "-", ""))
  THEN IntVal(DigitsToInt(Replace(Replace(value, ".", ""), "-", ""),
                          Len(Replace(Replace(value, ".", ""), "-", ""))))
  ELSE StrVal(value)

\* the conversion of the stripped, unquoted text of one field
Coerce(value) ==
  IF IsDigit(Replace(Replace(value, ".", ""), "-", ""))
  THEN IF Contains(value, ".")
       THEN (IF FloatOk(value) THEN PyFloat(value) ELSE StrVal(value))
       ELSE (IF IntOk(value) THEN IntVal(PyInt(value)) ELSE StrVal(value))
  ELSE StrVal(value)

\* the conversion of one field of a data line
ProcessValue(field) == Coerce(StripChars(Strip(field), {"'", "\""}))

\* the rows of processed values of the field lists that have len(attributes) fields
ProcessRows(full) ==
  [k \in 1..Len(full) |-> [i \in 1..Len(attributes) |-> ProcessValue(full[k][i])]]

\* data: one row of processed values per data line with len(attributes) fields
ParseData(dataLines) ==
  ProcessRows(SelectSeq([k \in 1..Len(dataLines) |-> Split(dataLines[k], ",")],
                        LAMBDA v : Len(v) = Len(attributes)))

\* load_nsl_kdd_dataset once data_start and data are known
NslKddTable(data_start, data) ==
  IF data_start = 0
  THEN Raised("Error cargando dataset NSL-KDD: No se encontro la seccion @DATA en el archivo")
  ELSE IF data = <<>>
       THEN Raised("Error cargando dataset NSL-KDD: No se pudieron cargar datos del archivo")
  ELSE Loaded(DataFrame(data, attributes))

\* load_nsl_kdd_dataset
load_nsl_kdd_dataset(content) ==
  NslKddTable(DataStart(Split(content, "\n")), ParseData(DataLines(content)))

----------------------------------------------------------------------------
(* sklearn.model_selection.train_test_split with stratify, as called by
   train_val_test_split_optimized *)

RECURSIVE SumOver(_, _)
\* the sum of f over the finite set S
SumOver(f, S) ==
  IF S = {} THEN 0
  ELSE LET c == CHOOSE c \in S : TRUE IN f[c] + SumOver(f, S \ {c})

\* a faulty variant: the test share rounded down
NTestFloor(n, num, den) == (n * num) \div den

\* _validate_shuffle_split for test_size = num/den: n_test = ceil(test_size * n)
NTest(n, num, den) == (n * num + den - 1) \div den
NTrain(n, num, den) == n - NTest(n, num, den)

\* _approximate_mode(class_counts, n_draws, rng): every class gets the floor of
\* its proportional share, the draws left over go to the classes with the largest
\* remainders; which of several equal remainders wins is the rng's choice
ApproximateMode(class_counts, n_draws) ==
  LET classes == DOMAIN class_counts
      total == SumOver(class_counts, classes)
      floored == [c \in classes |-> (class_counts[c] * n_draws) \div total]
      remainder == [c \in classes |-> (class_counts[c] * n_draws) % total]
      need_to_add == n_draws - SumOver(floored, classes)
  IN IF total = 0 THEN {class_counts}
     ELSE { [c \in classes |-> floored[c] + (IF c \in A THEN 1 ELSE 0)] :
              A \in {B \in SUBSET classes :
                       /\ Cardinality(B) = need_to_add
                       /\ \A a \in B, b \in classes \ B : remainder[a] >= remainder[b]} }

\* a faulty variant: no check of the least populated class
SplitErrorNoMinimum(class_counts, n_train, n_test) ==
  IF n_train = 0 THEN "The resulting train set will be empty"
  ELSE IF n_train < Cardinality(DOMAIN class_counts)
       THEN "The train_size should be greater or equal to the number of classes"
  ELSE IF n_test < Cardinality(DOMAIN class_counts)
       THEN "The test_size should be greater or equal to the number of classes"
  ELSE ""

\* the ValueError of train_test_split / StratifiedShuffleSplit for these class
\* counts, "" if there is none
SplitError(class_counts, n_train, n_test) ==
  LET classes == DOMAIN class_counts
  IN IF n_train = 0 THEN "The resulting train set will be empty"
     ELSE IF \E c \in classes : class_counts[c] < 2
          THEN "The least populated class in y has only 1 member, which is too few"
     ELSE IF n_train < Cardinality(classes)
          THEN "The train_size should be greater or equal to the number of classes"
     ELSE IF n_test < Cardinality(classes)
          THEN "The test_size should be greater or equal to the number of classes"
     ELSE ""

\* the per-class sizes <<n_i, t_i>> StratifiedShuffleSplit can draw
Allocations(class_counts, n_train, n_test) ==
  UNION { { <<n_i, t_i>> :
              t_i \in ApproximateMode([c \in DOMAIN class_counts |-> class_counts[c] - n_i[c]],
                                      n_test) }
          : n_i \in ApproximateMode(class_counts, n_train) }

\* np.unique / np.bincount of the label y over the rows R
ClassCounts(y, R) == [c \in {y[r] : r \in R} |-> Cardinality({r \in R : y[r] = c})]

\* the subsets of R that hold exactly size[c] rows of every class c
Draws(R, y, size) ==
  {T \in SUBSET R : \A c \in DOMAIN size : Cardinality({r \in T : y[r] = c}) = size[c]}

\* a faulty variant: the test rows are drawn from all of R, not from the rows
\* the training draw left over
train_test_split_overlapping(R, y, num, den) ==
  LET n_test == NTest(Cardinality(R), num, den)
      n_train == NTrain(Cardinality(R), num, den)
      class_counts == ClassCounts(y, R)
      err == SplitError(class_counts, n_train, n_test)
  IN IF err # "" THEN {[error |-> err, train |-> {}, test |-> {}]}
     ELSE UNION { UNION { { [error |-> "", train |-> tr, test |-> te] :
                              te \in Draws(R, y, a[2]) }
                          : tr \in Draws(R, y, a[1]) }
                  : a \in Allocations(class_counts, n_train, n_test) }

\* train_test_split(rows R, test_size=num/den, random_state=42, shuffle=True,
\* stratify=y): the outcomes the seeded permutation can give, as sets of rows
train_test_split(R, y, num, den) ==
  LET n_test == NTest(Cardinality(R), num, den)
      n_train == NTrain(Cardinality(R), num, den)
      class_counts == ClassCounts(y, R)
      err == SplitError(class_counts, n_train, n_test)
  IN IF err # "" THEN {[error |-> err, train |-> {}, test |-> {}]}
     ELSE UNION { UNION { { [error |-> "", train |-> tr, test |-> te] :
                              te \in Draws(R \ tr, y, a[2]) }
                          : tr \in Draws(R, y, a[1]) }
                  : a \in Allocations(class_counts, n_train, n_test) }

----------------------------------------------------------------------------
(* The summary and histogram stage *)

\* Series.value_counts().to_dict() of the label over the rows R
ValueCounts(y, R) == ClassCounts(y, R)

Splits == <<"train", "validation", "test">>

\* plot_to_base64: the encoded image of one split, never empty
plot_to_base64(split) == "base64-png:" \o split

\* a variant with one try per figure: only the figure that raises is left empty
generate_histograms_per_split(fail_at) ==
  [train |-> IF fail_at = 1 THEN "" ELSE plot_to_base64("train"),
   validation |-> IF fail_at = 2 THEN "" ELSE plot_to_base64("validation"),
   test |-> IF fail_at = 3 THEN "" ELSE plot_to_base64("test")]

\* generate_optimized_histograms; fail_at is the index in Splits of the figure
\* whose rendering raises, 0 if none does: one try covers the three figures,
\* its except clause replaces the whole dictionary
generate_optimized_histograms(fail_at) ==
  IF fail_at = 0
  THEN [train |-> plot_to_base64("train"), validation |-> plot_to_base64("validation"),
        test |-> plot_to_base64("test")]
  ELSE [train |-> "", validation |-> "", test |-> ""]

\* generate_optimized_results
generate_optimized_results(train, val, test, y, ncols, col, fail_at) ==
  [split_sizes |-> [train |-> Cardinality(train), validation |-> Cardinality(val),
                    test |-> Cardinality(test)],
   protocol_type_distribution |-> [train |-> ValueCounts(y, train),
                                   validation |-> ValueCounts(y, val),
                                   test |-> ValueCounts(y, test)],
   histograms |-> generate_optimized_histograms(fail_at),
   dataset_info |-> [total_instances |-> Cardinality(train) + Cardinality(val) + Cardinality(test),
                     features_count |-> ncols,
                     stratify_column_used |-> col]]

----------------------------------------------------------------------------
(* The requests the model sends *)

\* the size limit of process_dataset
MaxUploadBytes == 10 * 1024 * 1024

Text(lines) == Join(lines, "\n") \o "\n"

RelationLine == "@RELATION kdd"
DurationLine == "@ATTRIBUTE duration real"
ProtocolLine == "@ATTRIBUTE protocol_type {tcp,udp,icmp}"

\* a data line of the two-column files and of the 42-column NSL-KDD files
Row2(label) == "0," \o label
RowN(label, n) ==
  Join(<<"0", label, "http", "SF">> \o [i \in 1..(n - 5) |-> "0"] \o <<"normal">>, ",")

LabelSeqs(labels, n) == UNION {[1..k -> labels] : k \in 0..n}

\* the well-formed two-column file with these labels
TwoColumnFile(labels) ==
  Text(<<RelationLine, DurationLine, ProtocolLine, "@DATA">>
       \o [i \in 1..Len(labels) |-> Row2(labels[i])])

\* a tcp rows followed by b udp rows
Blocks(a, b) == [i \in 1..(a + b) |-> IF i <= a THEN "tcp" ELSE "udp"]

\* rows of the larger tables: enough for both labels to reach all three splits
LargeRows == 10

\* well-formed two-column files: every sequence of up to MaxRows labels, and
\* larger tables with both labels
SplitContents ==
  { TwoColumnFile(ls) : ls \in LabelSeqs({"tcp", "udp"}, MaxRows) }
  \cup { TwoColumnFile(Blocks(a, LargeRows - a)) : a \in {5, 6, 8} }

FirstAttributeLines ==
  { DurationLine, "@ATTRIBUTE duration continuous", "@ATTRIBUTE real_time numeric",
    "@ATTRIBUTE land", "@ATTRIBUTE island", "@ATTRIBUTE flag_id integer",
    "@ATTRIBUTE my_protocol string" }

LabelAttributeLines ==
  { ProtocolLine, "@ATTRIBUTE protocol_type string", "@ATTRIBUTE protocol_type",
    "@ATTRIBUTE protocol_type symbolic", "@ATTRIBUTE protocol_type {tcp,gre}",
    "@attribute Protocol_Type nominal", "@ATTRIBUTE proto string",
    "@ATTRIBUTE PROTOCOL string" }

\* two-column files over the header variants, with no rows or three rows of one label
HeaderContents ==
  { Text(<<RelationLine, a1, a2, "@data">> \o rows) :
      a1 \in FirstAttributeLines, a2 \in LabelAttributeLines,
      rows \in {<<>>, [i \in 1..3 |-> Row2("tcp")], [i \in 1..3 |-> Row2("gre")]} }

\* lines of a data section: rows of 42 and of 43 fields, a comment, a blank line,
\* a second marker
SectionLines ==
  { RowN("tcp", 42), "  " \o RowN("udp", 42) \o " \r", RowN("tcp", 43), "% comment", "", "@data" }

\* longest enumerated data section, in lines
MaxLines == 2

\* files whose header does not fit their rows, over the marker variants
FallbackContents ==
  { Text(pre \o mark \o [i \in 1..Len(ls) |-> ls[i]]) :
      pre \in {<<"garbled">>, <<RelationLine, DurationLine, ProtocolLine>>},
      mark \in {<<"@DATA">>, <<"  @Data \r">>, <<"@DATA:">>},
      ls \in LabelSeqs(SectionLines, MaxLines) }

\* longest generated field text, in characters
MaxFieldLen == 5

\* the texts of up to MaxFieldLen characters over a digit, the sign and the point
NumericTexts ==
  { Join(t, "") : t \in UNION {[1..k -> {"1", "-", "."}] : k \in 0..MaxFieldLen} }

\* other field texts: words, other signs and notations, leading zeros, quotes and blanks
OtherTexts ==
  { "tcp", "+5", "1e5", "007", "10.50", "-0", "1 2", "' 5'", "\"7\"", " '1.5' ",
    "'-3'", "\"tcp\"", "'1.2.3'", " 42 " }

FieldTexts == NumericTexts \cup OtherTexts

\* a data line of 42 fields with the given text as its fifth field
FieldRow(field) ==
  Join(<<"0", "tcp", "http", "SF", field>> \o [i \in 1..36 |-> "0"] \o <<"normal">>, ",")

\* files without a header whose data section is one line, over the field texts
FieldContents == { Text(<<"garbled", "@DATA", FieldRow(f)>>) : f \in FieldTexts }

DefaultContent == TwoColumnFile(Blocks(5, 0))

\* where a MemoryError strikes, if anywhere
Faults == {"none", "read", "normal", "split", "results"}

Upload(content) ==
  [method |-> "POST", has_file |-> TRUE, size |-> Len(content), decodable |-> TRUE,
   fault |-> "none", content |-> content]

Requests ==
  { Upload(c) : c \in SplitContents \cup HeaderContents \cup FallbackContents
                      \cup FieldContents }
  \cup
  [method : {"GET", "POST"}, has_file : BOOLEAN,
   size : {Len(DefaultContent), MaxUploadBytes, MaxUploadBytes + 1},
   decodable : BOOLEAN, fault : Faults, content : {DefaultContent}]

----------------------------------------------------------------------------
(* State *)

VARIABLES
  request,        \* the HTTP request being handled
  pc,             \* the stage of process_dataset that runs next
  attempts,       \* the loading strategies run so far, in order
  reasons,        \* e1, e2, e3: the messages of the strategies that failed
  cleaned_lines,  \* cleaned_lines of the permissive strategy
  data_lines,     \* data_lines of the NSL-KDD strategy
  df,             \* the loaded table
  stratify_col,   \* the label column
  train_set,      \* rows (indices into df.rows) of the training split
  val_set,        \* rows of the validation split
  test_set,       \* rows of the 40% remainder, then of the test split
  hist_error,     \* index in Splits of the figure whose rendering raised, 0 if none
  responses,      \* the JSON responses returned
  class_counts,   \* count-level split: rows per label of the table
  split_pc,       \* count-level split: the stage that runs next
  train_counts,   \* count-level split: rows per label of the training split
  val_counts,     \* count-level split: rows per label of the validation split
  test_counts     \* count-level split: rows per label of the remainder / test split

handler_vars == <<request, pc, attempts, reasons, cleaned_lines, data_lines, df,
                  stratify_col, train_set, val_set, test_set, hist_error, responses>>
count_vars == <<class_counts, split_pc, train_counts, val_counts, test_counts>>
vars == <<handler_vars, count_vars>>

NoColumn == ""

JsonResponse(body, status) == [status |-> status, body |-> body]

\* the handler of 'except MemoryError'
MemoryErrorResponse ==
  JsonResponse([error |-> "Error de memoria: El dataset es demasiado grande para procesar en el plan gratuito."], 400)

\* the handler of 'except Exception as e'
ExceptionResponse(msg) == JsonResponse([error |-> msg, traceback |-> "Traceback"], 400)

\* the label of every row: df[stratify_col]
LabelOf(frame, col) ==
  LET k == CHOOSE k \in 1..Len(frame.columns) :
             frame.columns[k] = col /\ \A j \in 1..(k - 1) : frame.columns[j] # col
  IN [r \in 1..Len(frame.rows) |-> frame.rows[r][k]]

CountsIdle ==
  /\ class_counts = <<>>
  /\ split_pc = "idle"
  /\ train_counts = <<>>
  /\ val_counts = <<>>
  /\ test_counts = <<>>

Init ==
  /\ request \in Requests
  /\ pc = "receive"
  /\ attempts = <<>>
  /\ reasons = <<>>
  /\ cleaned_lines = <<>>
  /\ data_lines = <<>>
  /\ df = NoFrame
  /\ stratify_col = NoColumn
  /\ train_set = {}
  /\ val_set = {}
  /\ test_set = {}
  /\ hist_error = 0
  /\ responses = <<>>
  /\ CountsIdle

Return(resp) ==
  /\ responses' = Append(responses, resp)
  /\ pc' = "done"

\* a faulty variant: the size of the upload is not checked
ReceiveUnchecked ==
  /\ pc = "receive"
  /\ IF request.method # "POST"
     THEN Return(JsonResponse([error |-> "Metodo no permitido"], 405))
     ELSE IF ~request.has_file
     THEN Return(JsonResponse([error |-> "No se envio ningun archivo"], 400))
     ELSE IF request.fault = "read" THEN Return(MemoryErrorResponse)
     ELSE IF ~request.decodable
     THEN Return(ExceptionResponse("'utf-8' codec can't decode byte"))
     ELSE pc' = "load_normal" /\ UNCHANGED responses
  /\ UNCHANGED <<request, attempts, reasons, cleaned_lines, data_lines, df, stratify_col,
                 train_set, val_set, test_set, hist_error, count_vars>>

\* process_dataset up to the decoded content: method, file field, size limit, read
Receive ==
  /\ pc = "receive"
  /\ IF request.method # "POST"
     THEN Return(JsonResponse([error |-> "Metodo no permitido"], 405))
     ELSE IF ~request.has_file
     THEN Return(JsonResponse([error |-> "No se envio ningun archivo"], 400))
     ELSE IF request.size > MaxUploadBytes
     THEN Return(JsonResponse([error |-> "El archivo es demasiado grande. Maximo 10MB."], 400))
     ELSE IF request.fault = "read" THEN Return(MemoryErrorResponse)
     ELSE IF ~request.decodable
     THEN Return(ExceptionResponse("'utf-8' codec can't decode byte"))
     ELSE pc' = "load_normal" /\ UNCHANGED responses
  /\ UNCHANGED <<request, attempts, reasons, cleaned_lines, data_lines, df, stratify_col,
                 train_set, val_set, test_set, hist_error, count_vars>>

\* load_kdd_dataset_from_content: the strategy returned the table of r, or raised
\* and the next strategy is tried
Attempt(r, next) ==
  IF r.ok
  THEN df' = r.df /\ pc' = "resolve" /\ UNCHANGED reasons
  ELSE reasons' = Append(reasons, r.error) /\ pc' = next /\ UNCHANGED df

\* a faulty variant: a failed strict parse goes straight to the NSL-KDD strategy
LoadNormalSkipping ==
  /\ pc = "load_normal"
  /\ attempts' = Append(attempts, "normal")
  /\ Attempt(load_kdd_dataset_normal(request.content, request.fault = "normal"),
             "load_nsl_kdd")
  /\ UNCHANGED <<request, cleaned_lines, data_lines, stratify_col, train_set, val_set,
                 test_set, responses, hist_error, count_vars>>

\* load_kdd_dataset_from_content, first attempt
LoadNormal ==
  /\ pc = "load_normal"
  /\ attempts' = Append(attempts, "normal")
  /\ Attempt(load_kdd_dataset_normal(request.content, request.fault = "normal"),
             "load_permissive")
  /\ UNCHANGED <<request, cleaned_lines, data_lines, stratify_col, train_set, val_set,
                 test_set, responses, hist_error, count_vars>>

\* load_kdd_dataset_from_content, second attempt
LoadPermissive ==
  /\ pc = "load_permissive"
  /\ attempts' = Append(attempts, "permissive")
  /\ cleaned_lines' = CleanLines(request.content)
  /\ Attempt(load_kdd_dataset_permissive(request.content, reasons[1]), "load_nsl_kdd")
  /\ UNCHANGED <<request, data_lines, stratify_col, train_set, val_set, test_set,
                 responses, hist_error, count_vars>>

\* load_kdd_dataset_from_content, the third strategy returned the table of r, or
\* raised: the exception with the three messages reaches the handler of
\* process_dataset
LastAttempt(r) ==
  IF r.ok
  THEN df' = r.df /\ pc' = "resolve" /\ UNCHANGED <<reasons, responses>>
  ELSE /\ reasons' = Append(reasons, r.error)
       /\ Return(ExceptionResponse(
            "No se pudo cargar el archivo ARFF. Errores:\n1. " \o reasons[1]
            \o "\n2. " \o reasons[2] \o "\n3. " \o r.error))
       /\ UNCHANGED df

\* load_kdd_dataset_from_content, third attempt
LoadNslKdd ==
  /\ pc = "load_nsl_kdd"
  /\ attempts' = Append(attempts, "nsl_kdd")
  /\ data_lines' = IF DataStart(Split(request.content, "\n")) = 0 THEN <<>>
                   ELSE DataLines(request.content)
  /\ LastAttempt(load_nsl_kdd_dataset(request.content))
  /\ UNCHANGED <<request, cleaned_lines, stratify_col, train_set, val_set, test_set,
                 hist_error, count_vars>>

\* a faulty variant: the search for 'protocol' is case-sensitive
ResolveStratifyColCaseSensitive(columns) ==
  LET protocol_cols == SelectSeq(columns, LAMBDA col : Contains(col, "protocol"))
  IN IF \E k \in 1..Len(columns) : columns[k] = "protocol_type" THEN "protocol_type"
     ELSE IF protocol_cols # <<>> THEN protocol_cols[1]
     ELSE NoColumn

\* the column process_dataset stratifies by, NoColumn if the table has none
ResolveStratifyCol(columns) ==
  LET protocol_cols == SelectSeq(columns, LAMBDA col : Contains(Lower(col), "protocol"))
  IN IF \E k \in 1..Len(columns) : columns[k] = "protocol_type" THEN "protocol_type"
     ELSE IF protocol_cols # <<>> THEN protocol_cols[1]
     ELSE NoColumn

\* process_dataset: the validation of the label column
ResolveLabel ==
  /\ pc = "resolve"
  /\ IF ResolveStratifyCol(df.columns) = NoColumn
     THEN /\ Return(JsonResponse([error |-> "El dataset debe contener la columna \"protocol_type\" para realizar la division estratificada"], 400))
          /\ UNCHANGED stratify_col
     ELSE /\ stratify_col' = ResolveStratifyCol(df.columns)
          /\ pc' = "split_first"
          /\ UNCHANGED responses
  /\ UNCHANGED <<request, attempts, reasons, cleaned_lines, data_lines, df, train_set,
                 val_set, test_set, hist_error, count_vars>>

\* train_val_test_split_optimized, the 60/40 split of the table
SplitFirst ==
  /\ pc = "split_first"
  /\ IF request.fault = "split"
     THEN Return(MemoryErrorResponse) /\ UNCHANGED <<train_set, test_set>>
     ELSE \E o \in train_test_split(1..Len(df.rows), LabelOf(df, stratify_col), 2, 5) :
            IF o.error # ""
            THEN Return(ExceptionResponse(o.error)) /\ UNCHANGED <<train_set, test_set>>
            ELSE /\ train_set' = o.train
                 /\ test_set' = o.test
                 /\ pc' = "split_second"
                 /\ UNCHANGED responses
  /\ UNCHANGED <<request, attempts, reasons, cleaned_lines, data_lines, df, stratify_col,
                 val_set, hist_error, count_vars>>

\* train_val_test_split_optimized, the 50/50 split of the remainder
SplitSecond ==
  /\ pc = "split_second"
  /\ \E o \in train_test_split(test_set, LabelOf(df, stratify_col), 1, 2) :
       IF o.error # ""
       THEN Return(ExceptionResponse(o.error)) /\ UNCHANGED <<val_set, test_set>>
       ELSE /\ val_set' = o.train
            /\ test_set' = o.test
            /\ pc' = "results"
            /\ UNCHANGED responses
  /\ UNCHANGED <<request, attempts, reasons, cleaned_lines, data_lines, df, stratify_col,
                 train_set, hist_error, count_vars>>

\* generate_optimized_results and the success response
Results ==
  /\ pc = "results"
  /\ IF request.fault = "results"
     THEN Return(MemoryErrorResponse) /\ UNCHANGED hist_error
     ELSE \E fail_at \in 0..Len(Splits) :
            /\ hist_error' = fail_at
            /\ Return(JsonResponse(
                 generate_optimized_results(train_set, val_set, test_set,
                                            LabelOf(df, stratify_col), Len(df.columns),
                                            stratify_col, fail_at),
                 200))
  /\ UNCHANGED <<request, attempts, reasons, cleaned_lines, data_lines, df, stratify_col,
                 train_set, val_set, test_set, count_vars>>

Next ==
  \/ Receive
  \/ LoadNormal
  \/ LoadPermissive
  \/ LoadNslKdd
  \/ ResolveLabel
  \/ SplitFirst
  \/ SplitSecond
  \/ Results

Spec == Init /\ [][Next]_vars

----------------------------------------------------------------------------
(* The split on class counts alone: the same allocation, without the rows *)

CountLabels == {"tcp", "udp", "icmp"}

\* the classes that occur
Present(counts) == [c \in {d \in DOMAIN counts : counts[d] > 0} |-> counts[c]]

\* the table of the end-to-end scenario: 150 rows
ScenarioCounts == [c \in CountLabels |-> IF c = "tcp" THEN 100 ELSE IF c = "udp" THEN 30 ELSE 20]

CountInputs == {Present(f) : f \in [CountLabels -> 0..MaxCount]} \cup {ScenarioCounts}

Total(counts) == SumOver(counts, DOMAIN counts)

HandlerIdle ==
  /\ request = Upload(DefaultContent)
  /\ pc = "idle"
  /\ attempts = <<>>
  /\ reasons = <<>>
  /\ cleaned_lines = <<>>
  /\ data_lines = <<>>
  /\ df = NoFrame
  /\ stratify_col = NoColumn
  /\ train_set = {}
  /\ val_set = {}
  /\ test_set = {}
  /\ hist_error = 0
  /\ responses = <<>>

CountInit ==
  /\ HandlerIdle
  /\ class_counts \in CountInputs
  /\ split_pc = "split_first"
  /\ train_counts = <<>>
  /\ val_counts = <<>>
  /\ test_counts = <<>>

\* the 60/40 split, on counts
CountSplitFirst ==
  /\ split_pc = "split_first"
  /\ LET n == Total(class_counts)
     IN IF SplitError(class_counts, NTrain(n, 2, 5), NTest(n, 2, 5)) # ""
        THEN split_pc' = "error" /\ UNCHANGED <<train_counts, test_counts>>
        ELSE \E a \in Allocations(class_counts, NTrain(n, 2, 5), NTest(n, 2, 5)) :
               /\ train_counts' = a[1]
               /\ test_counts' = a[2]
               /\ split_pc' = "split_second"
  /\ UNCHANGED <<handler_vars, class_counts, val_counts>>

\* the 50/50 split of the remainder, on counts
CountSplitSecond ==
  /\ split_pc = "split_second"
  /\ LET rest == Present(test_counts)
         n == Total(rest)
     IN IF SplitError(rest, NTrain(n, 1, 2), NTest(n, 1, 2)) # ""
        THEN split_pc' = "error" /\ UNCHANGED <<val_counts, test_counts>>
        ELSE \E a \in Allocations(rest, NTrain(n, 1, 2), NTest(n, 1, 2)) :
               /\ val_counts' = a[1]
               /\ test_counts' = a[2]
               /\ split_pc' = "done"
  /\ UNCHANGED <<handler_vars, class_counts, train_counts>>

CountNext == CountSplitFirst \/ CountSplitSecond

CountSpec == CountInit /\ [][CountNext]_vars

----------------------------------------------------------------------------
(* Properties of process_dataset *)

\* the request ended with the success payload
Succeeded == pc = "done" /\ responses # <<>> /\ responses[1].status = 200

\* both stages of train_val_test_split_optimized have returned
SplitReturned == pc = "results" \/ (pc = "done" /\ val_set # {})

\* a response that reports a failure: a client error status and a body with an
\* error text and nothing of a result
ErrorOnly(resp) ==
  /\ resp.status \in {400, 405}
  /\ "error" \in DOMAIN resp.body
  /\ DOMAIN resp.body \subseteq {"error", "traceback"}

Loading == pc \in {"receive", "load_normal", "load_permissive", "load_nsl_kdd"}

\* the response reports that load_kdd_dataset_from_content raised
LoadFailureReported ==
  /\ pc = "done" /\ responses # <<>> /\ responses[1].status # 200
  /\ StartsWith(responses[1].body.error, "No se pudo cargar el archivo ARFF. Errores:")

\* load_kdd_dataset_from_content has returned a table
TableLoaded == ~Loading /\ attempts # <<>> /\ ~LoadFailureReported

\* C1: once train_val_test_split_optimized has returned, its three splits
\* partition the rows of the table: the sizes add up to the number of rows, no
\* row is in two splits, every row is in one; the total_instances of the
\* success payload is the number of rows of the table.
C1_SplitsPartitionRows ==
  SplitReturned =>
    /\ Cardinality(train_set) + Cardinality(val_set) + Cardinality(test_set) = Len(df.rows)
    /\ train_set \cap val_set = {}
    /\ train_set \cap test_set = {}
    /\ val_set \cap test_set = {}
    /\ train_set \cup val_set \cup test_set = 1..Len(df.rows)
    /\ Succeeded => responses[1].body.dataset_info.total_instances = Len(df.rows)

\* a table with both labels has been split into three non-empty parts and reported
C1_Witness ==
  /\ Succeeded
  /\ Len(df.rows) = LargeRows
  /\ DOMAIN ClassCounts(LabelOf(df, stratify_col), 1..Len(df.rows)) = {StrVal("tcp"), StrVal("udp")}
  /\ train_set # {} /\ val_set # {} /\ test_set # {}

Strategies == <<"normal", "permissive", "nsl_kdd">>

\* what strategy k does with the content of the request
StrategyResult(k) ==
  IF k = 1 THEN load_kdd_dataset_normal(request.content, request.fault = "normal")
  ELSE IF k = 2 THEN load_kdd_dataset_permissive(request.content, reasons[1])
  ELSE load_nsl_kdd_dataset(request.content)

\* the pc at which strategy k runs; past the last one, the request is over
StrategyPc(k) ==
  IF k = 1 THEN "load_normal" ELSE IF k = 2 THEN "load_permissive"
  ELSE IF k = 3 THEN "load_nsl_kdd" ELSE "done"

\* the message of the exception raised when the three strategies have failed
LoadFailureMessage(e1, e2, e3) ==
  "No se pudo cargar el archivo ARFF. Errores:\n1. " \o e1 \o "\n2. " \o e2 \o "\n3. " \o e3

\* C2: the strategies run in the order strict, permissive, NSL-KDD fallback,
\* each only after every earlier one has failed and left its reason; the table
\* of the first strategy that succeeds is returned and no later strategy runs;
\* the load fails only when all three have failed, and the failure then
\* carries the three reasons in that order.
C2_StrategyOrder ==
  [][ /\ attempts' # attempts =>
           LET k == Len(attempts) + 1
           IN /\ k <= Len(Strategies)
              /\ pc = StrategyPc(k)
              /\ attempts' = SubSeq(Strategies, 1, k)
              /\ Len(reasons) = k - 1
              /\ df = NoFrame
              /\ IF StrategyResult(k).ok
                 THEN /\ df' = StrategyResult(k).df
                      /\ pc' = "resolve"
                      /\ UNCHANGED <<reasons, responses>>
                 ELSE /\ reasons' = Append(reasons, StrategyResult(k).error)
                      /\ df' = NoFrame
                      /\ pc' = StrategyPc(k + 1)
                      /\ IF k < Len(Strategies) THEN UNCHANGED responses
                         ELSE /\ responses' = <<ExceptionResponse(
                                     LoadFailureMessage(reasons'[1], reasons'[2], reasons'[3]))>>
                              /\ LoadFailureReported'
      /\ attempts' = attempts =>
           /\ UNCHANGED <<reasons, df>>
           /\ pc' \notin {"load_permissive", "load_nsl_kdd"}
           /\ ~LoadFailureReported' ]_vars

\* the permissive strategy returned a table after the strict one failed, and
\* the fallback never ran
C2_Witness ==
  /\ TableLoaded
  /\ attempts = <<"normal", "permissive">>
  /\ Len(reasons) = 1
  /\ df.rows # <<>>

\* C3: load_kdd_dataset_from_content never returns a table of zero rows, and a
\* failed load reports three non-empty reasons.
C3_NoEmptyTable ==
  /\ TableLoaded => df.rows # <<>>
  /\ LoadFailureReported => Len(reasons) = 3 /\ \A k \in 1..3 : reasons[k] # ""

\* the histograms of the success payload
Histograms == responses[1].body.histograms

\* C4: when the rendering of a figure fails, the histograms of all three splits
\* are the empty string, those rendered before the failure included; otherwise
\* every split has its image; either way the request returns the success
\* payload with split_sizes and protocol_type_distribution.
C4_HistogramsAllOrNone ==
  /\ Succeeded =>
       /\ hist_error = 0 =>
            \A k \in 1..Len(Splits) : Histograms[Splits[k]] = plot_to_base64(Splits[k])
       /\ hist_error # 0 => \A k \in 1..Len(Splits) : Histograms[Splits[k]] = ""
       /\ {"split_sizes", "protocol_type_distribution"} \subseteq DOMAIN responses[1].body
       /\ responses[1].body.split_sizes =
            [train |-> Cardinality(train_set), validation |-> Cardinality(val_set),
             test |-> Cardinality(test_set)]
  /\ hist_error # 0 => Succeeded

\* the rendering of the validation figure failed, after the training figure
\* had been rendered
C4_Witness == Succeeded /\ hist_error = 2 /\ Histograms["train"] = ""

\* C4 as stated: the histogram of the failing split is empty, the histograms
\* rendered before the failure are kept.
C4_PerSplitRecovery ==
  (Succeeded /\ hist_error # 0) =>
    /\ Histograms[Splits[hist_error]] = ""
    /\ \A k \in 1..(hist_error - 1) : Histograms[Splits[k]] # ""

\* the columns of the table whose lower-cased name contains 'protocol'
ProtocolColumns == {k \in 1..Len(df.columns) : Contains(Lower(df.columns[k]), "protocol")}

\* C5: after a successful load the label column is 'protocol_type' if the
\* table has a column of that name, else the first column whose lower-cased
\* name contains 'protocol'; a table with no such column is rejected with
\* status 400 at once: no split, no summary, no histogram.
C5_LabelColumn ==
  (TableLoaded /\ pc # "resolve") =>
    IF \E k \in 1..Len(df.columns) : df.columns[k] = "protocol_type"
    THEN stratify_col = "protocol_type"
    ELSE IF ProtocolColumns # {}
    THEN stratify_col = df.columns[CHOOSE k \in ProtocolColumns : \A j \in ProtocolColumns : k <= j]
    ELSE /\ pc = "done"
         /\ Len(responses) = 1
         /\ responses[1].status = 400
         /\ ErrorOnly(responses[1])
         /\ stratify_col = NoColumn
         /\ train_set = {} /\ val_set = {} /\ test_set = {}
         /\ hist_error = 0

\* a table without 'protocol_type' was split by the first of its two columns
\* that contain 'protocol'
C5_Witness ==
  /\ Succeeded
  /\ df.columns = <<"my_protocol", "PROTOCOL">>
  /\ stratify_col = "my_protocol"

\* some label that occurs among the rows R has fewer than 2 of them
ShortClass(R) ==
  \E r \in R : Cardinality({q \in R : LabelOf(df, stratify_col)[q] = LabelOf(df, stratify_col)[r]}) < 2

\* C6: a stage of the split whose portion (the table for the 60/40 stage, the
\* remainder for the 50/50 stage) holds a label with fewer than 2 rows ends the
\* request with an error response that carries nothing of a result, and
\* assigns no split.
C6_ShortClassFails ==
  [][ ((pc = "split_first" /\ ShortClass(1..Len(df.rows)))
        \/ (pc = "split_second" /\ ShortClass(test_set)))
      => /\ pc' = "done"
         /\ Len(responses') = 1
         /\ ErrorOnly(responses'[1])
         /\ UNCHANGED <<train_set, val_set, test_set>> ]_vars

\* the 50/50 stage failed on a remainder with a single row of one label
C6_Witness ==
  /\ pc = "done"
  /\ train_set # {} /\ val_set = {}
  /\ ShortClass(test_set)
  /\ Cardinality(test_set) >= 4
  /\ ErrorOnly(responses[1])

\* the stage at pc can take its step: the loaders, the label resolution and
\* the summary return or raise on every input, a split stage has an outcome
CanStep ==
  /\ pc \in {"receive", "load_normal", "load_permissive", "load_nsl_kdd", "resolve",
             "split_first", "split_second", "results", "done"}
  /\ pc = "split_first" =>
       train_test_split(1..Len(df.rows), LabelOf(df, stratify_col), 2, 5) # {}
  /\ pc = "split_second" => train_test_split(test_set, LabelOf(df, stratify_col), 1, 2) # {}

\* C7: a call answers exactly once, at its end, and no stage before the end is
\* left without a step; the answer is the success payload only for a POST with
\* a file of at most 10 MB whose load, label resolution and split succeeded; a
\* missing or an oversized file is answered 400 before any parsing; every
\* other failure is answered with a client error status and an 'error' text.
C7_OneResponse ==
  /\ Len(responses) <= 1
  /\ pc = "done" <=> Len(responses) = 1
  /\ CanStep
  /\ Succeeded =>
       /\ request.method = "POST" /\ request.has_file /\ request.size <= MaxUploadBytes
       /\ TableLoaded
       /\ stratify_col # NoColumn
       /\ train_set # {} /\ val_set # {} /\ test_set # {}
  /\ (pc = "done" /\ request.method = "POST"
        /\ (~request.has_file \/ request.size > MaxUploadBytes)) =>
       /\ responses[1].status = 400
       /\ attempts = <<>> /\ cleaned_lines = <<>> /\ data_lines = <<>> /\ df = NoFrame
  /\ (pc = "done" /\ ~Succeeded) => ErrorOnly(responses[1])

\* memory ran out while the summary was built, after load and split had succeeded
C7_Witness ==
  /\ pc = "done"
  /\ request.fault = "results"
  /\ val_set # {}
  /\ responses[1].status = 400

\* the rows of label c among the counts s
CountOf(s, c) == IF c \in DOMAIN s THEN s[c] ELSE 0

\* the counts s are within one row of the proportion tcp:udp:icmp = 10:3:2
NearScenarioProportion(s) ==
  \A c \in CountLabels :
    LET d == 15 * CountOf(s, c) - (ScenarioCounts[c] \div 10) * Total(s)
    IN -15 <= d /\ d <= 15

\* C8: the splits of n rows hold floor(3n/5) rows, then the halves of the
\* rest, rounded down and up, so 3n/5, n/5 and n/5 rows when 5 divides n; the
\* 150 rows of tcp:100, udp:30, icmp:20 give 90, 30 and 30 rows, each split
\* within one row of the proportion 10:3:2.
C8_SplitSizes ==
  split_pc = "done" =>
    LET n == Total(class_counts)
    IN /\ Total(train_counts) = (3 * n) \div 5
       /\ Total(val_counts) = (n - (3 * n) \div 5) \div 2
       /\ Total(test_counts) = n - Total(train_counts) - Total(val_counts)
       /\ n % 5 = 0 =>
            /\ 5 * Total(train_counts) = 3 * n
            /\ 5 * Total(val_counts) = n
            /\ 5 * Total(test_counts) = n
       /\ class_counts = ScenarioCounts =>
            /\ Total(train_counts) = 90 /\ Total(val_counts) = 30 /\ Total(test_counts) = 30
            /\ NearScenarioProportion(train_counts)
            /\ NearScenarioProportion(val_counts)
            /\ NearScenarioProportion(test_counts)

\* the 150 rows of the scenario have been split
C8_Witness == split_pc = "done" /\ class_counts = ScenarioCounts /\ Total(train_counts) = 90

\* the name an attribute declaration gives: the text between the keyword and
\* the type
DeclaredName(line) ==
  LET rest == Strip(SubSeq(line, Len("@attribute") + 1, Len(line)))
      stop == FirstIn(rest, Whitespace)
  IN IF stop = 0 THEN rest ELSE SubSeq(rest, 1, stop - 1)

IsDeclaration(line) == StartsWith(Lower(line), "@attribute")

\* the well-known columns a declaration names
NamedColumns(line) ==
  {k \in 1..Len(KnownColumns) : KnownColumns[k][1] = Lower(DeclaredName(line))}

\* C9: the permissive stage keeps the number and the order of the lines; a
\* declaration that names a well-known column becomes that column's canonical
\* nominal declaration whatever it declared; every other declaration keeps its
\* attribute name.
C9_RepairByName ==
  cleaned_lines # <<>> =>
    LET kept == StrippedLines(Split(request.content, "\n"))
    IN /\ Len(cleaned_lines) = Len(kept)
       /\ \A i \in 1..Len(kept) :
            IF ~IsDeclaration(kept[i]) THEN cleaned_lines[i] = kept[i]
            ELSE IF NamedColumns(kept[i]) # {}
                 THEN \A k \in NamedColumns(kept[i]) : cleaned_lines[i] = KnownColumns[k][2]
                 ELSE DeclaredName(cleaned_lines[i]) = DeclaredName(kept[i])

\* the k-th smallest member of a set of indices
KthOf(S, k) == CHOOSE i \in S : Cardinality({j \in S : j <= i}) = k

\* the third strategy has failed with the given reason and the request is
\* answered with the three reasons
FallbackFailed(reason) ==
  /\ pc = "done"
  /\ df = NoFrame
  /\ Len(reasons) = 3
  /\ reasons[3] = "Error cargando dataset NSL-KDD: " \o reason
  /\ responses[1].status = 400

\* the number of commas of a line
Commas(line) == Cardinality({i \in 1..Len(line) : Char(line, i) = ","})

\* the table of the third strategy: the fixed columns, and one row per line of
\* 42 fields among the lines at the indices keep, in their order
FallbackTable(lines, keep) ==
  LET full == {i \in keep : Commas(Strip(lines[i])) = 41}
  IN IF full = {} THEN FallbackFailed("No se pudieron cargar datos del archivo")
     ELSE /\ pc # "load_nsl_kdd"
          /\ df.columns = attributes
          /\ Len(df.columns) = 42
          /\ Len(df.rows) = Cardinality(full)
          /\ \A k \in 1..Len(df.rows) :
               df.rows[k] = [j \in 1..42 |->
                               ProcessValue(Split(Strip(lines[KthOf(full, k)]), ",")[j])]

\* C10: once the third strategy has run, its data lines are the trimmed lines
\* after the first '@data' line (any case, trimmed) that are not blank and do
\* not start with '%', in input order; the table has the 42 fixed columns and
\* one row for each data line of exactly 42 comma-separated fields, in order;
\* the strategy fails when there is no '@data' line or no row remains.
C10_SchemaFallback ==
  Len(attempts) = 3 =>
    LET lines == Split(request.content, "\n")
        marks == {i \in 1..Len(lines) : Lower(Strip(lines[i])) = "@data"}
        first == CHOOSE i \in marks : \A j \in marks : i <= j
        keep == {i \in (first + 1)..Len(lines) :
                   Strip(lines[i]) # "" /\ Char(Strip(lines[i]), 1) # "%"}
    IN IF marks = {}
       THEN /\ data_lines = <<>>
            /\ FallbackFailed("No se encontro la seccion @DATA en el archivo")
       ELSE /\ Len(data_lines) = Cardinality(keep)
            /\ \A k \in 1..Len(data_lines) : data_lines[k] = Strip(lines[KthOf(keep, k)])
            /\ FallbackTable(lines, keep)

\* the third strategy loaded a table and dropped a data line on the way
C10_Witness ==
  /\ Len(attempts) = 3
  /\ df # NoFrame
  /\ Len(df.rows) >= 1
  /\ Len(data_lines) > Len(df.rows)

\* a field without its surrounding whitespace and then without its surrounding quotes
Bare(field) == StripChars(Strip(field), {"'", "\""})

\* a text without its leading '-', if it has one
Unsign(v) == IF Len(v) > 0 /\ Char(v, 1) = "-" THEN SubSeq(v, 2, Len(v)) ELSE v

DigitsAt(u) == {i \in 1..Len(u) : Char(u, i) \in Digits}
PointsAt(u) == {i \in 1..Len(u) : Char(u, i) = "."}

\* digits, with at most one leading '-' and no '.'
IsIntegerText(v) == Len(Unsign(v)) > 0 /\ DigitsAt(Unsign(v)) = 1..Len(Unsign(v))

\* digits, with at most one leading '-' and exactly one '.'
IsFloatText(v) ==
  /\ Cardinality(PointsAt(Unsign(v))) = 1
  /\ DigitsAt(Unsign(v)) # {}
  /\ DigitsAt(Unsign(v)) \cup PointsAt(Unsign(v)) = 1..Len(Unsign(v))

\* the number the digits of u write, its other characters skipped
Magnitude(u) ==
  SumOver([i \in DigitsAt(u) |->
             DigitValue(Char(u, i)) * Pow10(Cardinality({j \in DigitsAt(u) : j > i}))],
          DigitsAt(u))

Signed(v, n) == IF Unsign(v) = v THEN n ELSE -n

\* the cell the bare text v of a field is stored as
ClaimedCell(v) ==
  IF IsIntegerText(v) THEN IntVal(Signed(v, Magnitude(Unsign(v))))
  ELSE IF IsFloatText(v)
       THEN FloatVal(Signed(v, Magnitude(Unsign(v))),
                     Len(Unsign(v)) - (CHOOSE i \in PointsAt(Unsign(v)) : TRUE))
  ELSE StrVal(v)

\* the data lines of 42 fields, in order
FullLines == SelectSeq(data_lines, LAMBDA l : Commas(l) = 41)

\* the third strategy has just returned its table, or has raised
FallbackEnded == Len(attempts) = 3 /\ (pc = "resolve" \/ df = NoFrame)

\* C11: when the third strategy ends, each cell of its table is the field of
\* its line, bare of surrounding whitespace and quotes, stored as an integer
\* when it is digits with at most one leading '-' and no '.', as a float when it
\* is digits with at most one leading '-' and exactly one '.', and as the bare
\* text itself otherwise; whatever the fields are, a data line of 42 fields
\* makes the strategy return a table.
C11_FieldCoercion ==
  FallbackEnded =>
    /\ FullLines # <<>> => (df # NoFrame /\ Len(reasons) = 2)
    /\ df # NoFrame =>
         /\ Len(df.rows) = Len(FullLines)
         /\ \A k \in 1..Len(df.rows) : \A j \in 1..42 :
              df.rows[k][j] = ClaimedCell(Bare(Split(FullLines[k], ",")[j]))

\* the third strategy kept a field that passes the digit test as a string,
\* after float() refused it
C11_Witness ==
  /\ FallbackEnded
  /\ df # NoFrame
  /\ df.rows[1][5] = StrVal("1.1.1")

====
